---- MODULE Spec2Model ----
(***************************************************************************)
(* A model of the query engine of the Metrist Grafana datasource:          *)
(*   pkg/plugin/queries.go     the three query handlers, the paginators    *)
(*                             and the concurrent fetch of monitor errors  *)
(*   pkg/plugin/datasource.go  QueryData and the query router              *)
(*                                                                         *)
(* Two specifications share the module.  SpecFetch runs one call of        *)
(* fetchAllMonitorErrors (one goroutine per parameter set, joined by an    *)
(* errgroup) or of fetchAllStatusPageMonitor against a remote API whose    *)
(* every answer is chosen freely.  SpecQuery runs QueryData on a request   *)
(* and follows a handler through decoding, fetching and frame building.    *)
(***************************************************************************)
EXTENDS Bags, FiniteSets, Integers, Sequences, TLC

(***************************************************************************)
(* Bounds of the model.                                                    *)
(***************************************************************************)
\* entries the remote API puts on one page, at most
MaxPageEntries == 2
\* entries the remote API hands to one paginator over all its pages, at most
MaxStreamEntries == 2
\* pages after which a well-behaved remote API has returned its nil cursor
MaxPages == 3

(***************************************************************************)
(* Program constants.                                                      *)
(***************************************************************************)
maxPageCount == 20

\* Go's nil pointer and nil error.  A nil slice is the empty sequence and a
\* nil map the empty set of pairs: neither is told from an empty one.
NIL == "nil"

(***************************************************************************)
(* Time.  A timestamp of the API is a string; time.Parse(time.RFC3339, s)  *)
(* yields the instant it denotes (hours on an arbitrary scale) and its     *)
(* zone offset, or an error and the zero time.                             *)
(***************************************************************************)
Timestamps ==
    { "2022-12-07T18:00:00Z",
      "2022-12-07T19:00:00+01:00",
      "2022-12-07T17:00:00Z",
      "07/12/2022 18:00" }

\* time.Time{}: January 1, year 1, UTC, before every instant of the API.
ZeroTime == [inst |-> 0, zone |-> "UTC"]

TimeParse(s) ==
    CASE s = "2022-12-07T18:00:00Z"      -> [time |-> [inst |-> 18, zone |-> "UTC"], err |-> NIL]
      [] s = "2022-12-07T19:00:00+01:00" -> [time |-> [inst |-> 18, zone |-> "+01:00"], err |-> NIL]
      [] s = "2022-12-07T17:00:00Z"      -> [time |-> [inst |-> 17, zone |-> "UTC"], err |-> NIL]
      [] OTHER                           -> [time |-> ZeroTime, err |-> "parsing time"]

\* strToTime drops the error of time.Parse and returns the time it came with.
strToTime(str) == TimeParse(str).time

\* time.Time.Before compares instants, whatever the zones.
Before(t, u) == t.inst < u.inst

(***************************************************************************)
(* Records of the remote API.                                              *)
(***************************************************************************)
MonitorErrorCount(ts, instance, check, monitor, count) ==
    [ Timestamp |-> ts, Instance |-> instance, Check |-> check,
      MonitorLogicalName |-> monitor, Count |-> count ]

StatusPageComponentChange(ts, component, monitor, status) ==
    [ Timestamp |-> ts, Component |-> component,
      MonitorLogicalName |-> monitor, Status |-> status ]

\* The error counts the remote API may serve.  The second and the third have
\* different (instance, check) pairs; the first two denote the same instant.
MonitorErrorCounts ==
    { MonitorErrorCount("2022-12-07T18:00:00Z", "a", "c", "m", 1),
      MonitorErrorCount("2022-12-07T19:00:00+01:00", "a-b", "c", "m", 2),
      MonitorErrorCount("2022-12-07T17:00:00Z", "a", "b-c", "m", 1),
      MonitorErrorCount("07/12/2022 18:00", "a", "c", "m", 3) }

StatusPageComponentChanges ==
    { StatusPageComponentChange("2022-12-07T18:00:00Z", "api", "m", "up"),
      StatusPageComponentChange("2022-12-07T17:00:00Z", "api", "m", "down"),
      StatusPageComponentChange("2022-12-07T17:00:00Z", "web", "m", "investigating") }

(***************************************************************************)
(* Sequences.                                                              *)
(***************************************************************************)
Range(s) == { s[i] : i \in DOMAIN s }

SeqsUpTo(S, n) == UNION { [1..k -> S] : k \in 0..n }

SeqBag(s) == [ x \in Range(s) |-> Cardinality({ i \in DOMAIN s : s[i] = x }) ]

Min(a, b) == IF a < b THEN a ELSE b

(***************************************************************************)
(* sort.SliceStable(monitorErrors, less) with                              *)
(*   less(i, j) = strToTime(ts[i]).Before(strToTime(ts[j])):               *)
(* a stable sort, here by insertion: each element goes in front of the     *)
(* first element it is less than, behind every element it is not.          *)
(***************************************************************************)
lessTimestamp(x, y) == Before(strToTime(x.Timestamp), strToTime(y.Timestamp))

lessOrEqualTimestamp(x, y) == ~Before(strToTime(y.Timestamp), strToTime(x.Timestamp))

less(x, y) == lessTimestamp(x, y)

RECURSIVE InsertStable(_, _)
InsertStable(sorted, x) ==
    IF sorted = <<>> THEN <<x>>
    ELSE IF less(x, sorted[1]) THEN <<x>> \o sorted
    ELSE <<sorted[1]>> \o InsertStable(Tail(sorted), x)

RECURSIVE SortSliceStable(_)
SortSliceStable(s) ==
    IF s = <<>> THEN <<>>
    ELSE InsertStable(SortSliceStable(SubSeq(s, 1, Len(s) - 1)), s[Len(s)])

(***************************************************************************)
(* The remote API client.  Every call returns one of: a transport error;   *)
(* a response without a JSON200 body (a non-200 status); a page of entries *)
(* with the cursor of the next page, nil on the last page.  The API is     *)
(* free to repeat cursors and to answer with empty pages.                  *)
(***************************************************************************)
Cursors == {"c1", "c2"}

TransportErrors == {"errRemoteRequest", "context.DeadlineExceeded"}

(***************************************************************************)
(* State.                                                                  *)
(***************************************************************************)
VARIABLES
    \* ---- one call of a fetchAll function (SpecFetch)
    fKind,          \* "errors": fetchAllMonitorErrors, "status": fetchAllStatusPageMonitor
    apiEnv,         \* the remote API: "finite" (well-behaved) or "looping"
    includeShared,  \* query.IncludeShared
    fpc,            \* "start", "wait" (g.Wait or the loop running), "returned"
    params,         \* the parameter sets, one per stream
    spc,            \* per stream: "idle", "loop", "returned", "stopped", "panicked"
    pageCount,      \* per stream: the loop counter
    cursorAfter,    \* per stream: currentParam.CursorAfter
    result,         \* per stream: its slot of the result array
    calls,          \* per stream: fetch calls issued so far
    served,         \* per stream: every entry the API has served it, in order
    sret,           \* per stream: what its goroutine returned, "none" while it runs
    order,          \* the streams in the order in which their goroutines returned
    gErr,           \* errgroup: the first error returned by a goroutine
    ctxDone,        \* errgroup: the group's context is cancelled
    ret,            \* what the fetchAll function returned: [records, err]
    fquery,         \* the check and instance filters of the query
    callerDone,     \* the caller's context is cancelled
    callCtx,        \* per stream: the context of its last fetch call: "none", "live", "done"
    lastReq,        \* per stream: the parameters of its last fetch call, <<>> before
    lastCursor,     \* per stream: response.Metadata.CursorAfter of its last page, "none" before
    \* ---- one call of QueryData (SpecQuery)
    req,            \* req.Queries
    hasApiKey,      \* the plugin context holds a non-empty apiKey
    qi,             \* the index of the query the loop of QueryData is at
    pc,             \* where the processing of that query stands
    kind,           \* the handler the query was routed to, "none" before
    hres,           \* the response the router or the handler returned
    herr,           \* the error the router or the handler returned
    fetchOutcome,   \* how the handler's fetch ended: "none", "error", "empty", "records"
    apiCalls,       \* fetches the handler has issued to the remote API client
    paramsM,        \* params.M of the handler's fetch: the monitors it asked for
    responses,      \* the handler's fetched records
    idx,            \* the position of the frame-building loop in responses
    graphFrameMap,  \* key -> graph frame
    tableFrameMap,  \* key -> table frame
    created,        \* the keys a graph frame was created for, in order
    Responses,      \* response.Responses of QueryData: RefID -> DataResponse
    builds          \* history: every (kind, records, frames) a handler has built

qvars == << req, hasApiKey, qi, pc, kind, hres, herr, fetchOutcome, apiCalls, paramsM,
            responses, idx, graphFrameMap, tableFrameMap, created, Responses, builds >>

fvars == << fKind, apiEnv, includeShared, fpc, params, spc, pageCount, cursorAfter,
            result, calls, served, sret, order, gErr, ctxDone, ret,
            fquery, callerDone, callCtx, lastReq, lastCursor >>

vars == << fvars, qvars >>

Slots == 1..2

\* the loop condition of both paginators
LoopOffByOne(count) == count <= maxPageCount

LoopContinues(count) == count < maxPageCount

(***************************************************************************)
(* fetchAllMonitorErrors, lines 116-138: the parameter sets and the slots. *)
(***************************************************************************)
\* a *[]string: the nil pointer, or a pointer to a list
NilSlice == [nil |-> TRUE, elems |-> <<>>]

SliceOf(elems) == [nil |-> FALSE, elems |-> elems]

\* nilIfEmpty, lines 441-447
nilIfEmptyKeepsEmpty(slice) == slice

nilIfEmpty(slice) ==
    IF slice.nil \/ Len(slice.elems) = 0 THEN NilSlice ELSE slice

\* query.Checks and query.Instances: absent, an empty list, a list
NoFilterQuery == [Checks |-> NilSlice, Instances |-> NilSlice]

FetchQueries ==
    { [Checks |-> SliceOf(<<>>), Instances |-> SliceOf(<<"us-east-1">>)],
      [Checks |-> SliceOf(<<"ping">>), Instances |-> SliceOf(<<>>)],
      NoFilterQuery }

\* query.TimeRange and query.Monitors of the fetch
FetchFrom == "from"
FetchTo == "to"
FetchMonitors == <<"awslambda">>

\* params, lines 116-135
ErrorParams(shared) ==
    LET param == [From |-> FetchFrom, To |-> FetchTo, M |-> FetchMonitors,
                  OnlyShared |-> NIL,
                  C |-> fquery.Checks, I |-> fquery.Instances]
    IN  IF shared
        THEN << param, [param EXCEPT !.OnlyShared = "true"] >>
        ELSE << param >>

\* params of fetchAllStatusPageMonitor, lines 401-405
StatusParams ==
    << [From |-> FetchFrom, To |-> FetchTo, M |-> FetchMonitors] >>

\* the cursor of the next request: currentParam.CursorAfter, nil at first and
\* then what the loop stored (lines 167 and 416)
RequestCursorFirstPage(i) == NIL

RequestCursor(i) == cursorAfter[i]

\* currentParam of the goroutine of stream i, lines 145-152, with the cursor
\* the loop has stored in it (line 167); the status paginator passes params
CurrentParam(i) ==
    IF fKind = "errors"
    THEN [From |-> params[i].From, To |-> params[i].To, M |-> params[i].M,
          OnlyShared |-> params[i].OnlyShared,
          C |-> nilIfEmpty(params[i].C), I |-> nilIfEmpty(params[i].I),
          CursorAfter |-> RequestCursor(i)]
    ELSE [From |-> params[i].From, To |-> params[i].To, M |-> params[i].M,
          CursorAfter |-> RequestCursor(i)]

\* the context the goroutines' fetch calls are issued with: the ctx of
\* g, ctx := errgroup.WithContext(ctx), which shadows the caller's
FetchContextIsCallers == "caller"

FetchContext == "group"

ContextDone(c) == IF c = "group" THEN ctxDone ELSE callerDone

\* client.Backend...GetWithResponse(ctx, &currentParam): the call of stream
\* i is issued; fetchAllStatusPageMonitor passes the ctx it was given
IssueCall(i) ==
    LET c == IF fKind = "errors" THEN FetchContext ELSE "caller" IN
    /\ callCtx' = [callCtx EXCEPT ![i] = IF ContextDone(c) THEN "done" ELSE "live"]
    /\ lastReq' = [lastReq EXCEPT ![i] = << CurrentParam(i) >>]

FetchStart(envs, queries) ==
    /\ fKind \in {"errors", "status"}
    /\ fquery \in queries
    /\ apiEnv \in envs
    /\ includeShared \in BOOLEAN
    /\ fKind = "status" => includeShared = FALSE
    /\ fpc = "start"
    /\ params = <<>>
    /\ spc = [i \in Slots |-> "idle"]
    /\ pageCount = [i \in Slots |-> 0]
    /\ cursorAfter = [i \in Slots |-> NIL]
    /\ result = [i \in Slots |-> <<>>]
    /\ calls = [i \in Slots |-> 0]
    /\ served = [i \in Slots |-> <<>>]
    /\ sret = [i \in Slots |-> "none"]
    /\ order = <<>>
    /\ gErr = NIL
    /\ ctxDone = FALSE
    /\ ret = [records |-> <<>>, err |-> NIL]
    /\ callerDone = FALSE
    /\ callCtx = [i \in Slots |-> "none"]
    /\ lastReq = [i \in Slots |-> <<>>]
    /\ lastCursor = [i \in Slots |-> "none"]

\* a query without filters against an API of any records
FetchInit == FetchStart({"finite", "looping"}, {NoFilterQuery})

\* a query with filters against an API of one record, the caller free to cancel
CancelInit == FetchStart({"small"}, FetchQueries)

\* g.Go for every parameter set: the goroutines start, each at pageCount 0.
FetchErrorsStart ==
    /\ fKind = "errors"
    /\ fpc = "start"
    /\ params' = ErrorParams(includeShared)
    /\ spc' = [i \in Slots |-> IF i <= Len(ErrorParams(includeShared)) THEN "loop" ELSE "idle"]
    /\ fpc' = "wait"
    /\ UNCHANGED << fKind, apiEnv, includeShared, fquery, lastCursor, callerDone, callCtx, lastReq,
                    pageCount, cursorAfter, result, calls,
                    served, sret, order, gErr, ctxDone, ret >>
    /\ UNCHANGED qvars

\* The entries a page served to stream i may hold.  A looping API and a small
\* one serve one and the same record; a well-behaved one serves any of its
\* records.
PageEntries(i, universe) ==
    LET recs == IF apiEnv \in {"looping", "small"}
                THEN {CHOOSE r \in universe : TRUE} ELSE universe
    IN  SeqsUpTo(recs, Min(MaxPageEntries, MaxStreamEntries - Len(served[i])))

\* The cursor a page served to stream i may carry: a well-behaved API
\* returns the nil cursor on page MaxPages at the latest; a looping one
\* repeats one and the same cursor.
PageCursors(i) ==
    IF apiEnv = "looping" THEN {CHOOSE c \in Cursors : TRUE, NIL}
    ELSE IF calls[i] + 1 >= MaxPages THEN {NIL} ELSE Cursors \cup {NIL}

\* errgroup.Go: the first goroutine that returns an error sets g.err and
\* cancels the group's context.
GroupReturn(i, err) ==
    /\ sret' = [sret EXCEPT ![i] = err]
    /\ order' = Append(order, i)
    /\ IF err = NIL
       THEN UNCHANGED << gErr, ctxDone >>
       ELSE /\ gErr' = IF gErr = NIL THEN err ELSE gErr
            /\ ctxDone' = TRUE

\* the goroutine of stream i goes round its loop once more
GroupContinue == UNCHANGED << sret, order, gErr, ctxDone >>

\* An iteration of a goroutine's loop whose fetch returns a transport error.
StreamFetchError(i) ==
    /\ fKind = "errors" /\ fpc = "wait" /\ spc[i] = "loop"
    /\ \E err \in TransportErrors \cup (IF ctxDone THEN {"context.Canceled"} ELSE {}) :
          GroupReturn(i, err)
    /\ calls' = [calls EXCEPT ![i] = @ + 1]
    /\ IssueCall(i)
    /\ spc' = [spc EXCEPT ![i] = "returned"]
    /\ UNCHANGED << fKind, apiEnv, includeShared, fquery, lastCursor, callerDone,
                    fpc, params, pageCount, cursorAfter,
                    result, served, ret >>
    /\ UNCHANGED qvars

\* if response == nil { log; return nil }: what the goroutine returns
Non200ReturnsError == "errRemoteResponse"

Non200Return == NIL

\* An iteration whose response has no JSON200: logged, the goroutine returns
\* nil ("stopped": returned from inside the loop, without a page).
StreamFetchNon200(i) ==
    /\ fKind = "errors" /\ fpc = "wait" /\ spc[i] = "loop"
    /\ GroupReturn(i, Non200Return)
    /\ calls' = [calls EXCEPT ![i] = @ + 1]
    /\ IssueCall(i)
    /\ spc' = [spc EXCEPT ![i] = "stopped"]
    /\ UNCHANGED << fKind, apiEnv, includeShared, fquery, lastCursor, callerDone,
                    fpc, params, pageCount, cursorAfter,
                    result, served, ret >>
    /\ UNCHANGED qvars

\* result[i] = append(result[i], *response.Entries...)
AppendEntriesOverwrite(slot, entries) == entries

AppendEntries(slot, entries) == slot \o entries

\* if currentParam.CursorAfter = response.Metadata.CursorAfter;
\*    currentParam.CursorAfter == nil { break }
PageEndsLoopWhenEmpty(entries, cursor) == cursor = NIL \/ entries = <<>>

PageEndsLoop(entries, cursor) == cursor = NIL

\* the error returned behind the loop, whether the loop ended on a nil cursor
\* or on the page bound: return nil (line 171), return monitorStatuses, nil
\* (line 420)
LoopEndReturnTruncated(cursor) == IF cursor = NIL THEN NIL ELSE "errTruncated"

LoopEndReturn(cursor) == NIL

\* the slot the goroutine of stream i appends to: i := i rebinds the loop
\* variable, so the closure holds its own index and not the loop's last one
SlotOfLoopVariable(i) == Len(params)

SlotOf(i) == i

\* An iteration that receives a page: the entries are appended to the
\* goroutine's slot, the cursor is taken over; a nil cursor or the page bound
\* ends the loop and the goroutine returns nil.
StreamFetchPage(i) ==
    /\ fKind = "errors" /\ fpc = "wait" /\ spc[i] = "loop"
    /\ \E entries \in PageEntries(i, MonitorErrorCounts), cursor \in PageCursors(i) :
          /\ result' = [result EXCEPT ![SlotOf(i)] = AppendEntries(@, entries)]
          /\ served' = [served EXCEPT ![i] = @ \o entries]
          /\ cursorAfter' = [cursorAfter EXCEPT ![i] = cursor]
          /\ lastCursor' = [lastCursor EXCEPT ![i] = cursor]
          /\ pageCount' = [pageCount EXCEPT ![i] =
                              IF PageEndsLoop(entries, cursor) THEN @ ELSE @ + 1]
          /\ IF ~PageEndsLoop(entries, cursor) /\ LoopContinues(pageCount[i] + 1)
             THEN /\ spc' = [spc EXCEPT ![i] = "loop"]
                  /\ GroupContinue
             ELSE /\ spc' = [spc EXCEPT ![i] = "returned"]
                  /\ GroupReturn(i, LoopEndReturn(cursor))
    /\ calls' = [calls EXCEPT ![i] = @ + 1]
    /\ IssueCall(i)
    /\ UNCHANGED << fKind, apiEnv, includeShared, fquery, callerDone,
                    fpc, params, ret >>
    /\ UNCHANGED qvars

\* the caller's context is cancelled while the fetch runs: the group's
\* context, derived from it, is cancelled with it
CallerCancel ==
    /\ fpc \in {"start", "wait"}
    /\ ~callerDone
    /\ callerDone' = TRUE
    /\ ctxDone' = TRUE
    /\ UNCHANGED << fKind, apiEnv, includeShared, fquery, lastCursor, callCtx, lastReq,
                    fpc, params, spc, pageCount, cursorAfter,
                    result, calls, served, sret, order, gErr, ret >>
    /\ UNCHANGED qvars

AllStreamsReturned == \A i \in Slots : spc[i] \in {"idle", "returned", "stopped"}

\* the merge loop over the result array, skipping the empty slots
RECURSIVE MergeSlots(_, _)
MergeSlots(res, n) ==
    IF n = 0 THEN <<>>
    ELSE MergeSlots(res, n - 1) \o res[n]

\* if err := g.Wait(); err != nil { return nil, err }
ErrorReturnPartial(err, res, n) == [records |-> MergeSlots(res, n), err |-> err]

ErrorReturn(err, res, n) == [records |-> <<>>, err |-> err]

\* g.Wait() returns the group's error: return nil, err
FetchWaitError ==
    /\ fKind = "errors" /\ fpc = "wait"
    /\ AllStreamsReturned
    /\ gErr # NIL
    /\ ret' = ErrorReturn(gErr, result, Len(params))
    /\ fpc' = "returned"
    /\ ctxDone' = TRUE
    /\ UNCHANGED << fKind, apiEnv, includeShared, fquery, lastCursor, callerDone, callCtx, lastReq,
                    params, spc, pageCount, cursorAfter,
                    result, calls, served, sret, order, gErr >>
    /\ UNCHANGED qvars

\* g.Wait() returns nil: the slots are concatenated in slot order and sorted.
FetchMerge ==
    /\ fKind = "errors" /\ fpc = "wait"
    /\ AllStreamsReturned
    /\ gErr = NIL
    /\ ret' = [records |-> SortSliceStable(MergeSlots(result, Len(params))), err |-> NIL]
    /\ fpc' = "returned"
    /\ ctxDone' = TRUE
    /\ UNCHANGED << fKind, apiEnv, includeShared, fquery, lastCursor, callerDone, callCtx, lastReq,
                    params, spc, pageCount, cursorAfter,
                    result, calls, served, sret, order, gErr >>
    /\ UNCHANGED qvars

(***************************************************************************)
(* fetchAllStatusPageMonitor: one sequential loop, in slot 1.              *)
(***************************************************************************)
FetchStatusStart ==
    /\ fKind = "status"
    /\ fpc = "start"
    /\ params' = StatusParams
    /\ spc' = [spc EXCEPT ![1] = "loop"]
    /\ fpc' = "wait"
    /\ UNCHANGED << fKind, apiEnv, includeShared, fquery, lastCursor, callerDone, callCtx, lastReq,
                    pageCount, cursorAfter, result, calls,
                    served, sret, order, gErr, ctxDone, ret >>
    /\ UNCHANGED qvars

\* the fetch returns a transport error: return nil, err
StatusFetchError ==
    /\ fKind = "status" /\ fpc = "wait" /\ spc[1] = "loop"
    /\ \E err \in TransportErrors :
          ret' = [records |-> <<>>, err |-> err]
    /\ calls' = [calls EXCEPT ![1] = @ + 1]
    /\ IssueCall(1)
    /\ spc' = [spc EXCEPT ![1] = "returned"]
    /\ fpc' = "returned"
    /\ UNCHANGED << fKind, apiEnv, includeShared, fquery, lastCursor, callerDone,
                    params, pageCount, cursorAfter,
                    result, served, sret, order, gErr, ctxDone >>
    /\ UNCHANGED qvars

\* the response has no JSON200: response.Entries dereferences a nil pointer
StatusFetchNon200 ==
    /\ fKind = "status" /\ fpc = "wait" /\ spc[1] = "loop"
    /\ calls' = [calls EXCEPT ![1] = @ + 1]
    /\ IssueCall(1)
    /\ spc' = [spc EXCEPT ![1] = "panicked"]
    /\ fpc' = "panicked"
    /\ UNCHANGED << fKind, apiEnv, includeShared, fquery, lastCursor, callerDone,
                    params, pageCount, cursorAfter,
                    result, served, sret, order, gErr, ctxDone, ret >>
    /\ UNCHANGED qvars

StatusFetchPage ==
    /\ fKind = "status" /\ fpc = "wait" /\ spc[1] = "loop"
    /\ \E entries \in PageEntries(1, StatusPageComponentChanges), cursor \in PageCursors(1) :
          LET more == ~PageEndsLoop(entries, cursor) /\ LoopContinues(pageCount[1] + 1) IN
          /\ result' = [result EXCEPT ![1] = AppendEntries(@, entries)]
          /\ served' = [served EXCEPT ![1] = @ \o entries]
          /\ cursorAfter' = [cursorAfter EXCEPT ![1] = cursor]
          /\ lastCursor' = [lastCursor EXCEPT ![1] = cursor]
          /\ pageCount' = [pageCount EXCEPT ![1] =
                              IF PageEndsLoop(entries, cursor) THEN @ ELSE @ + 1]
          /\ spc' = [spc EXCEPT ![1] = IF more THEN "loop" ELSE "returned"]
          /\ fpc' = IF more THEN "wait" ELSE "returned"
          /\ ret' = IF more THEN ret
                    ELSE [records |-> AppendEntries(result[1], entries),
                          err |-> LoopEndReturn(cursor)]
    /\ calls' = [calls EXCEPT ![1] = @ + 1]
    /\ IssueCall(1)
    /\ UNCHANGED << fKind, apiEnv, includeShared, fquery, callerDone,
                    params, sret, order, gErr, ctxDone >>
    /\ UNCHANGED qvars

(***************************************************************************)
(* QueryData and the handlers (SpecQuery).                                 *)
(***************************************************************************)
\* 3 * 30 * 24 * time.Hour, in hours
durationThreeMonths == 3 * 30 * 24

\* time.Now(), in hours on the scale of the time ranges
Now == 2 * durationThreeMonths

\* the time ranges of a query: the start beyond the 90 days with the range
\* longer and not longer than three months, the start exactly 90 days ago,
\* and the last 100 hours
TimeRanges ==
    { [From |-> Now - durationThreeMonths - 1, To |-> Now],
      [From |-> Now - durationThreeMonths - 1, To |-> Now - durationThreeMonths + 99],
      [From |-> Now - durationThreeMonths, To |-> Now],
      [From |-> Now - 100, To |-> Now] }

\* query.JSON: not JSON at all, JSON whose fields have the wrong types (the
\* queryType apart), or a well-formed query
JSONShapes == {"malformed", "mistyped", "ok"}

QueryTypes == {"GetMonitorErrors", "GetMonitorTelemetry", "GetMonitorStatusPageChanges", "GetMonitorList"}

RefIDs == <<"A", "B", "C">>

\* the "monitors" of the query JSON as json.Unmarshal decodes it: of length
\* zero when the field is absent, null or an empty list
MonitorLists == { <<>>, <<"awslambda">> }

Queries ==
    [ JSON : JSONShapes, QueryType : QueryTypes, Monitors : MonitorLists,
      FromAlerting : BOOLEAN, TimeRange : TimeRanges ]

\* backend.DataResponse{}
DataResponse == [Frames |-> <<>>, Error |-> NIL, Status |-> NIL]

\* backend.ErrDataResponse(status, message)
ErrDataResponse(status, message) == [Frames |-> <<>>, Error |-> message, Status |-> status]

\* backend.DataResponse{Frames: frames}
FramesResponse(frames) == [Frames |-> frames, Error |-> NIL, Status |-> NIL]

MonitorTelemetry(ts, instance, check, monitor, value) ==
    [ Timestamp |-> ts, Instance |-> instance, Check |-> check,
      MonitorLogicalName |-> monitor, Value |-> value ]

MonitorTelemetries ==
    { MonitorTelemetry("2022-12-07T18:00:00Z", "a", "c", "m", 100),
      MonitorTelemetry("2022-12-07T17:00:00Z", "a-b", "c", "m", 250),
      MonitorTelemetry("2022-12-07T19:00:00+01:00", "a", "b-c", "m", 100),
      MonitorTelemetry("07/12/2022 18:00", "a", "c", "m", 300) }

\* the errors a fetch may return
FetchErrors == TransportErrors \cup {"errRemoteResponse", "connection refused"}

\* records a handler's fetch returns, at most
MaxRecords == 3

\* the same in a request of several queries
MaxMultiRecords == 2

\* queries of a request, at most
MaxQueries == 2

KindOf(queryType) ==
    CASE queryType = "GetMonitorErrors"            -> "errors"
      [] queryType = "GetMonitorTelemetry"         -> "telemetry"
      [] queryType = "GetMonitorStatusPageChanges" -> "status"
      [] OTHER                                     -> "none"

\* ensureTimeRangeWithinLimits(q.TimeRange.Duration())
ensureTimeRangeWithinLimits(tr) ==
    IF tr.To - tr.From > durationThreeMonths THEN "errTimerangeLimitExceeded" ELSE NIL

ensureTelemetryRequestIncludingBoundary(fromDate) ==
    IF fromDate <= Now - durationThreeMonths
    THEN "errTelemetryRequestedOutsideBounds" ELSE NIL

\* ensureTelemetryRequestWithinLast90Days(query.TimeRange.From)
ensureTelemetryRequestWithinLast90Days(fromDate) ==
    IF fromDate < Now - durationThreeMonths
    THEN "errTelemetryRequestedOutsideBounds" ELSE NIL

spcStatusToIntUnknownIsDown(status) ==
    CASE status \in {"up", "operational"} -> 0
      [] status = "degraded"              -> 1
      [] OTHER                            -> 2

\* spcStatusToInt: a map lookup, 0 for a status that is not in the map
spcStatusToInt(status) ==
    CASE status \in {"up", "operational"} -> 0
      [] status = "degraded"              -> 1
      [] status = "down"                  -> 2
      [] OTHER                            -> 0

\* fmt.Sprintf("%s-%s-%s", instance, check, monitor), "%s-%s" for a status change
Key(k, r) ==
    IF k = "status"
    THEN r.Component \o "-" \o r.MonitorLogicalName
    ELSE r.Instance \o "-" \o r.Check \o "-" \o r.MonitorLogicalName

\* the labels of a graph frame, a map, as the set of its (name, value) pairs
Labels(k, r) ==
    IF k = "status"
    THEN { <<"component", r.Component>>, <<"monitor", r.MonitorLogicalName>> }
    ELSE { <<"instance", r.Instance>>, <<"check", r.Check>>,
           <<"monitor", r.MonitorLogicalName>> }

\* nil labels
NoLabels == {}

MeasurementName(k) ==
    CASE k = "errors"    -> "count"
      [] k = "telemetry" -> "response time (ms)"
      [] k = "status"    -> "status"

Measurement(k, r) ==
    CASE k = "errors"    -> r.Count
      [] k = "telemetry" -> r.Value
      [] k = "status"    -> spcStatusToInt(r.Status)

\* data.NewField(name, labels, empty slice)
NewField(name, labels) == [Name |-> name, Labels |-> labels, Values |-> <<>>, Config |-> <<>>]

\* the frame a handler creates for a key it has no graph frame of
GraphFrame(k, r) ==
    [ Fields |-> << NewField("time", NoLabels), NewField(MeasurementName(k), Labels(k, r)) >>,
      Meta |-> [Type |-> "TimeSeriesMulti", PreferredVisualization |-> NIL] ]

\* the frame a handler creates for a key it has no table frame of
TableFrame(k) ==
    [ Fields |->
        << NewField("time", NoLabels), NewField(MeasurementName(k), NoLabels) >> \o
        (IF k = "status"
         THEN << NewField("component", NoLabels), NewField("monitor", NoLabels) >>
         ELSE << NewField("instance", NoLabels), NewField("check", NoLabels), NewField("monitor", NoLabels) >>),
      Meta |-> [Type |-> "TimeSeriesWide", PreferredVisualization |-> "table"] ]

GraphVals(k, r, timestamp) == << timestamp, Measurement(k, r) >>

TableVals(k, r, timestamp) ==
    << timestamp, Measurement(k, r) >> \o
    (IF k = "status"
     THEN << r.Component, r.MonitorLogicalName >>
     ELSE << r.Instance, r.Check, r.MonitorLogicalName >>)

\* frame.AppendRow(vals...): one value more in every field
AppendRow(frame, vals) ==
    [frame EXCEPT !.Fields = [f \in DOMAIN frame.Fields |->
        [frame.Fields[f] EXCEPT !.Values = Append(@, vals[f])]]]

\* frameToAppendTo, ok := frameMap[key]; if !ok { create, store }
LookupAlwaysCreates(frameMap, key, fresh) == fresh

Lookup(frameMap, key, fresh) ==
    IF key \in DOMAIN frameMap THEN frameMap[key] ELSE fresh

\* the map after the row of a record went into the frame of its key
PutRow(frameMap, key, fresh, vals) ==
    [ k \in DOMAIN frameMap \cup {key} |->
        IF k = key THEN AppendRow(Lookup(frameMap, key, fresh), vals) ELSE frameMap[k] ]

\* for _, frame := range frameMap: the frames in every order a Go map may
\* be iterated in
RangeOrders(frameMap) ==
    { [i \in 1..Cardinality(DOMAIN frameMap) |-> frameMap[o[i]]] :
        o \in { p \in [1..Cardinality(DOMAIN frameMap) -> DOMAIN frameMap] :
                  \A i, j \in DOMAIN p : i # j => p[i] # p[j] } }

\* if !monitorTelemetryQuery.FromAlerting { append the table frames }
IncludesTablesAlways(fromAlerting) == TRUE

IncludesTables(fromAlerting) == ~fromAlerting

\* the value mappings of the status handler
StatusMappings ==
    << [value |-> "0", Text |-> "(0) up", Color |-> "green"],
       [value |-> "1", Text |-> "(1) degraded", Color |-> "yellow"],
       [value |-> "2", Text |-> "(2) error", Color |-> "red"] >>

SetConfigsMeasurementOnly(frames) ==
    [ n \in DOMAIN frames |->
        [frames[n] EXCEPT !.Fields = [f \in DOMAIN frames[n].Fields |->
            IF f # 2 THEN frames[n].Fields[f]
            ELSE [frames[n].Fields[f] EXCEPT !.Config = StatusMappings]]] ]

\* field.SetConfig on every field of every frame but the first field
SetConfigs(frames) ==
    [ n \in DOMAIN frames |->
        [frames[n] EXCEPT !.Fields = [f \in DOMAIN frames[n].Fields |->
            IF f = 1 THEN frames[n].Fields[f]
            ELSE [frames[n].Fields[f] EXCEPT !.Config = StatusMappings]]] ]

EmptyMap == [k \in {} |-> NIL]

\* the handler's locals before a query
Locals ==
    /\ kind = "none"
    /\ hres = DataResponse
    /\ herr = NIL
    /\ fetchOutcome = "none"
    /\ apiCalls = 0
    /\ paramsM = <<>>
    /\ responses = <<>>
    /\ idx = 0
    /\ graphFrameMap = EmptyMap
    /\ tableFrameMap = EmptyMap
    /\ created = <<>>

LocalsReset ==
    /\ kind' = "none"
    /\ hres' = DataResponse
    /\ herr' = NIL
    /\ fetchOutcome' = "none"
    /\ apiCalls' = 0
    /\ paramsM' = <<>>
    /\ responses' = <<>>
    /\ idx' = 0
    /\ graphFrameMap' = EmptyMap
    /\ tableFrameMap' = EmptyMap
    /\ created' = <<>>

\* no request: the state of the query variables under SpecFetch
QueryIdle ==
    /\ req = <<>>
    /\ hasApiKey = FALSE
    /\ qi = 0
    /\ pc = "idle"
    /\ Locals
    /\ Responses = EmptyMap
    /\ builds = {}

\* no fetchAll call of its own: the state of the fetch variables under SpecQuery
FetchIdle ==
    /\ fKind = "none"
    /\ fquery = NoFilterQuery
    /\ apiEnv = "none"
    /\ includeShared = FALSE
    /\ fpc = "idle"
    /\ params = <<>>
    /\ spc = [i \in Slots |-> "idle"]
    /\ pageCount = [i \in Slots |-> 0]
    /\ cursorAfter = [i \in Slots |-> NIL]
    /\ result = [i \in Slots |-> <<>>]
    /\ calls = [i \in Slots |-> 0]
    /\ served = [i \in Slots |-> <<>>]
    /\ sret = [i \in Slots |-> "none"]
    /\ order = <<>>
    /\ gErr = NIL
    /\ ctxDone = FALSE
    /\ ret = [records |-> <<>>, err |-> NIL]
    /\ callerDone = FALSE
    /\ callCtx = [i \in Slots |-> "none"]
    /\ lastReq = [i \in Slots |-> <<>>]
    /\ lastCursor = [i \in Slots |-> "none"]

\* QueryData is called with a request of one query; response.Responses is empty.
QueryInit ==
    /\ req \in [1..1 -> Queries]
    /\ hasApiKey \in BOOLEAN
    /\ qi = 1
    /\ pc = "QueryData"
    /\ Locals
    /\ Responses = EmptyMap
    /\ builds = {}

\* the queries of a request of several queries
MultiQueries ==
    { query \in Queries :
        /\ query.QueryType # "GetMonitorStatusPageChanges"
        /\ query.Monitors # <<>>
        /\ ~query.FromAlerting }

\* QueryData is called with a request of several queries.
MultiInit ==
    /\ req \in [1..MaxQueries -> MultiQueries]
    /\ hasApiKey \in BOOLEAN
    /\ qi = 1
    /\ pc = "QueryData"
    /\ Locals
    /\ Responses = EmptyMap
    /\ builds = {}

q == req[qi]

Store(refID, res) == [r \in DOMAIN Responses \cup {refID} |-> IF r = refID THEN res ELSE Responses[r]]

\* QueryData, the time range is longer than three months: a bad request is
\* recorded for the query and the loop continues.
QDTimeRangeExceeded ==
    /\ pc = "QueryData"
    /\ ensureTimeRangeWithinLimits(q.TimeRange) # NIL
    /\ Responses' = Store(RefIDs[qi],
                          ErrDataResponse("StatusBadRequest", ensureTimeRangeWithinLimits(q.TimeRange)))
    /\ pc' = "recorded"
    /\ UNCHANGED << req, hasApiKey, qi, kind, hres, herr, fetchOutcome, apiCalls, paramsM,
                    responses, idx, graphFrameMap, tableFrameMap, created, builds >>
    /\ UNCHANGED fvars

\* d.query: json.Unmarshal of the query model fails
QueryJSONError ==
    /\ pc = "QueryData"
    /\ ensureTimeRangeWithinLimits(q.TimeRange) = NIL
    /\ q.JSON = "malformed"
    /\ hres' = ErrDataResponse("StatusBadRequest", "json unmarshal: invalid character")
    /\ herr' = "json: invalid character"
    /\ pc' = "handled"
    /\ UNCHANGED << req, hasApiKey, qi, kind, fetchOutcome, apiCalls, paramsM,
                    responses, idx, graphFrameMap, tableFrameMap, created, Responses, builds >>
    /\ UNCHANGED fvars

\* d.query: requireApiKey fails
QueryMissingApiKey ==
    /\ pc = "QueryData"
    /\ ensureTimeRangeWithinLimits(q.TimeRange) = NIL
    /\ q.JSON # "malformed"
    /\ ~hasApiKey
    /\ hres' = DataResponse
    /\ herr' = "errMissingApiKey"
    /\ pc' = "handled"
    /\ UNCHANGED << req, hasApiKey, qi, kind, fetchOutcome, apiCalls, paramsM,
                    responses, idx, graphFrameMap, tableFrameMap, created, Responses, builds >>
    /\ UNCHANGED fvars

\* d.query: a query type without a handler
QueryUnknownType ==
    /\ pc = "QueryData"
    /\ ensureTimeRangeWithinLimits(q.TimeRange) = NIL
    /\ q.JSON # "malformed"
    /\ hasApiKey
    /\ KindOf(q.QueryType) = "none"
    /\ hres' = DataResponse
    /\ herr' = NIL
    /\ pc' = "handled"
    /\ UNCHANGED << req, hasApiKey, qi, kind, fetchOutcome, apiCalls, paramsM,
                    responses, idx, graphFrameMap, tableFrameMap, created, Responses, builds >>
    /\ UNCHANGED fvars

\* d.query: the query goes to its handler
QueryDispatch ==
    /\ pc = "QueryData"
    /\ ensureTimeRangeWithinLimits(q.TimeRange) = NIL
    /\ q.JSON # "malformed"
    /\ hasApiKey
    /\ KindOf(q.QueryType) # "none"
    /\ kind' = KindOf(q.QueryType)
    /\ pc' = "validate"
    /\ UNCHANGED << req, hasApiKey, qi, hres, herr, fetchOutcome, apiCalls, paramsM,
                    responses, idx, graphFrameMap, tableFrameMap, created, Responses, builds >>
    /\ UNCHANGED fvars

\* the error of the telemetry handler's first statement, nil in the others
BoundsError ==
    IF kind = "telemetry"
    THEN ensureTelemetryRequestWithinLast90Days(q.TimeRange.From)
    ELSE NIL

\* QueryMonitorTelemetry: the start of the range is more than 90 days ago
TelemetryOutsideBounds ==
    /\ pc = "validate"
    /\ BoundsError # NIL
    /\ hres' = ErrDataResponse("StatusBadRequest", BoundsError)
    /\ herr' = BoundsError
    /\ pc' = "handled"
    /\ UNCHANGED << req, hasApiKey, qi, kind, fetchOutcome, apiCalls, paramsM,
                    responses, idx, graphFrameMap, tableFrameMap, created, Responses, builds >>
    /\ UNCHANGED fvars

\* a handler: json.Unmarshal of the query fails
HandlerJSONError ==
    /\ pc = "validate"
    /\ BoundsError = NIL
    /\ q.JSON = "mistyped"
    /\ hres' = ErrDataResponse("StatusBadRequest", "json unmarshal: cannot unmarshal")
    /\ herr' = "json: cannot unmarshal"
    /\ pc' = "handled"
    /\ UNCHANGED << req, hasApiKey, qi, kind, fetchOutcome, apiCalls, paramsM,
                    responses, idx, graphFrameMap, tableFrameMap, created, Responses, builds >>
    /\ UNCHANGED fvars

\* a handler: the query is decoded, the fetch is next
HandlerDecoded ==
    /\ pc = "validate"
    /\ BoundsError = NIL
    /\ q.JSON = "ok"
    /\ pc' = "fetch"
    /\ UNCHANGED << req, hasApiKey, qi, kind, hres, herr, fetchOutcome, apiCalls, paramsM,
                    responses, idx, graphFrameMap, tableFrameMap, created, Responses, builds >>
    /\ UNCHANGED fvars

\* a handler: the fetch returns an error
HandlerFetchError ==
    /\ pc = "fetch"
    /\ \E err \in FetchErrors : herr' = err
    /\ hres' = DataResponse
    /\ fetchOutcome' = "error"
    /\ apiCalls' = apiCalls + 1
    /\ paramsM' = q.Monitors
    /\ pc' = "handled"
    /\ UNCHANGED << req, hasApiKey, qi, kind,
                    responses, idx, graphFrameMap, tableFrameMap, created, Responses, builds >>
    /\ UNCHANGED fvars

EmptyFetchIsAnError == [res |-> DataResponse, err |-> "no data"]

\* if len(responses) == 0 { return backend.DataResponse{}, nil }
EmptyFetchReturn == [res |-> DataResponse, err |-> NIL]

\* a handler: the fetch returns no records
HandlerFetchEmpty ==
    /\ pc = "fetch"
    /\ responses' = <<>>
    /\ hres' = EmptyFetchReturn.res
    /\ herr' = EmptyFetchReturn.err
    /\ fetchOutcome' = "empty"
    /\ apiCalls' = apiCalls + 1
    /\ paramsM' = q.Monitors
    /\ pc' = "handled"
    /\ UNCHANGED << req, hasApiKey, qi, kind,
                    idx, graphFrameMap, tableFrameMap, created, Responses, builds >>
    /\ UNCHANGED fvars

\* QueryMonitorTelemetry, fetchAllStatusPageMonitor: the response has no
\* success body (resp.JSON200 is nil) and the code dereferences it; the panic
\* unwinds the handler, d.query and QueryData, none of which recovers.
HandlerFetchNon200 ==
    /\ pc = "fetch"
    /\ kind \in {"telemetry", "status"}
    /\ fetchOutcome' = "panic"
    /\ apiCalls' = apiCalls + 1
    /\ paramsM' = q.Monitors
    /\ pc' = "panicked"
    /\ UNCHANGED << req, hasApiKey, qi, kind, hres, herr,
                    responses, idx, graphFrameMap, tableFrameMap, created, Responses, builds >>
    /\ UNCHANGED fvars

\* Records the remote API may serve in which a dimension is null: the
\* generated client leaves the pointer field nil.
NilFieldRecords(k) ==
    CASE k = "errors"    -> { MonitorErrorCount("2022-12-07T18:00:00Z", NIL, "c", "m", 1) }
      [] k = "telemetry" -> { MonitorTelemetry("2022-12-07T18:00:00Z", "a", NIL, "m", 100) }
      [] k = "status"    -> { StatusPageComponentChange("2022-12-07T18:00:00Z", NIL, "m", "up") }

\* the loop body dereferences a nil pointer of the record: *r.Timestamp
\* first, then the dimensions in the key
DerefsNil(k, r) ==
    \/ r.Timestamp = NIL
    \/ /\ TimeParse(r.Timestamp).err = NIL
       /\ IF k = "status"
          THEN NIL \in {r.Component, r.MonitorLogicalName}
          ELSE NIL \in {r.Instance, r.Check, r.MonitorLogicalName}

\* The records a fetch may return: fetchAllMonitorErrors sorts what its
\* streams were served; the other two return the records as served.
Fetched(k) ==
    CASE k = "errors"    -> { SortSliceStable(s) :
                                s \in SeqsUpTo(MonitorErrorCounts \cup NilFieldRecords(k), MaxRecords) }
      [] k = "telemetry" -> SeqsUpTo(MonitorTelemetries \cup NilFieldRecords(k), MaxRecords)
      [] k = "status"    -> SeqsUpTo(StatusPageComponentChanges \cup NilFieldRecords(k), MaxRecords)

\* the records budget of the request at hand
RecordBudget == IF Len(req) = 1 THEN MaxRecords ELSE MaxMultiRecords

\* a handler: the fetch returns records
HandlerFetched ==
    /\ pc = "fetch"
    /\ \E recs \in Fetched(kind) \ {<<>>} :
          /\ Len(recs) <= RecordBudget
          /\ responses' = recs
    /\ fetchOutcome' = "records"
    /\ apiCalls' = apiCalls + 1
    /\ paramsM' = q.Monitors
    /\ idx' = 1
    /\ pc' = "shape"
    /\ UNCHANGED << req, hasApiKey, qi, kind, hres, herr,
                    graphFrameMap, tableFrameMap, created, Responses, builds >>
    /\ UNCHANGED fvars

\* the frame-building loop at a record with a nil field: the dereference
\* panics, and the panic unwinds the handler, d.query and QueryData
FrameLoopNilField ==
    /\ pc = "shape"
    /\ idx <= Len(responses)
    /\ DerefsNil(kind, responses[idx])
    /\ pc' = "panicked"
    /\ UNCHANGED << req, hasApiKey, qi, kind, hres, herr, fetchOutcome, apiCalls, paramsM, idx,
                    responses, graphFrameMap, tableFrameMap, created, Responses, builds >>
    /\ UNCHANGED fvars

FrameLoopSkipAborts ==
    /\ pc = "shape"
    /\ idx <= Len(responses)
    /\ TimeParse(responses[idx].Timestamp).err # NIL
    /\ hres' = DataResponse
    /\ herr' = TimeParse(responses[idx].Timestamp).err
    /\ pc' = "handled"
    /\ UNCHANGED << req, hasApiKey, qi, kind, fetchOutcome, apiCalls, paramsM, idx,
                    responses, graphFrameMap, tableFrameMap, created, Responses, builds >>
    /\ UNCHANGED fvars

\* the frame-building loop at a record whose timestamp does not parse: continue
FrameLoopSkip ==
    /\ pc = "shape"
    /\ idx <= Len(responses)
    /\ ~DerefsNil(kind, responses[idx])
    /\ TimeParse(responses[idx].Timestamp).err # NIL
    /\ idx' = idx + 1
    /\ UNCHANGED << req, hasApiKey, qi, pc, kind, hres, herr, fetchOutcome, apiCalls, paramsM,
                    responses, graphFrameMap, tableFrameMap, created, Responses, builds >>
    /\ UNCHANGED fvars

\* the frame-building loop at a record whose timestamp parses: one row into
\* the graph frame of its key, one row into the table frame of its key
FrameLoopAppend ==
    /\ pc = "shape"
    /\ idx <= Len(responses)
    /\ ~DerefsNil(kind, responses[idx])
    /\ TimeParse(responses[idx].Timestamp).err = NIL
    /\ LET r == responses[idx]
           timestamp == TimeParse(r.Timestamp).time
           key == Key(kind, r)
       IN  /\ graphFrameMap' = PutRow(graphFrameMap, key, GraphFrame(kind, r),
                                      GraphVals(kind, r, timestamp))
           /\ tableFrameMap' = PutRow(tableFrameMap, key, TableFrame(kind),
                                      TableVals(kind, r, timestamp))
           /\ created' = IF key \in DOMAIN graphFrameMap
                         THEN created ELSE Append(created, key)
    /\ idx' = idx + 1
    /\ UNCHANGED << req, hasApiKey, qi, pc, kind, hres, herr, fetchOutcome, apiCalls, paramsM,
                    responses, Responses, builds >>
    /\ UNCHANGED fvars

\* after the loop: the graph frames in map order, the table frames in map
\* order unless the query comes from alerting, the value mappings of the
\* status handler, and the return
HandlerAssemble ==
    /\ pc = "shape"
    /\ idx > Len(responses)
    /\ \E graphs \in RangeOrders(graphFrameMap), tables \in RangeOrders(tableFrameMap) :
          LET frames == IF IncludesTables(q.FromAlerting) THEN graphs \o tables ELSE graphs
          IN  hres' = FramesResponse(IF kind = "status" THEN SetConfigs(frames) ELSE frames)
    /\ herr' = NIL
    /\ builds' = builds \cup {[kind |-> kind, records |-> responses, frames |-> hres'.Frames]}
    /\ pc' = "handled"
    /\ UNCHANGED << req, hasApiKey, qi, kind, fetchOutcome, apiCalls, paramsM,
                    responses, idx, graphFrameMap, tableFrameMap, created, Responses >>
    /\ UNCHANGED fvars

\* QueryData: the switch on the error of d.query
ErrorResponse(res, err) ==
    CASE err = NIL                        -> res
      [] err = "context.DeadlineExceeded" -> ErrDataResponse("StatusTimeout", "gateway timeout")
      [] err = "errRemoteRequest"         -> ErrDataResponse("StatusBadGateway", "bad gateway request")
      [] err = "errRemoteResponse"        -> ErrDataResponse("StatusValidationFailed", "bad gateway response")
      [] OTHER                            -> ErrDataResponse("StatusInternal", err)

\* QueryData: response.Responses[q.RefID] = res
QDRecord ==
    /\ pc = "handled"
    /\ Responses' = Store(RefIDs[qi], ErrorResponse(hres, herr))
    /\ pc' = "recorded"
    /\ UNCHANGED << req, hasApiKey, qi, kind, hres, herr, fetchOutcome, apiCalls, paramsM,
                    responses, idx, graphFrameMap, tableFrameMap, created, builds >>
    /\ UNCHANGED fvars

\* QueryData: the next query, or the return after the last
QDNext ==
    /\ pc = "recorded"
    /\ qi' = qi + 1
    /\ pc' = IF qi < Len(req) THEN "QueryData" ELSE "returned"
    /\ LocalsReset
    /\ UNCHANGED << req, hasApiKey, Responses, builds >>
    /\ UNCHANGED fvars

QueryNext ==
    \/ QDTimeRangeExceeded
    \/ QueryJSONError
    \/ QueryMissingApiKey
    \/ QueryUnknownType
    \/ QueryDispatch
    \/ TelemetryOutsideBounds
    \/ HandlerJSONError
    \/ HandlerDecoded
    \/ HandlerFetchError
    \/ HandlerFetchEmpty
    \/ HandlerFetchNon200
    \/ HandlerFetched
    \/ FrameLoopNilField
    \/ FrameLoopSkip
    \/ FrameLoopAppend
    \/ HandlerAssemble
    \/ QDRecord
    \/ QDNext

FetchNext ==
    \/ FetchErrorsStart
    \/ \E i \in Slots : StreamFetchError(i)
    \/ \E i \in Slots : StreamFetchNon200(i)
    \/ \E i \in Slots : StreamFetchPage(i)
    \/ FetchWaitError
    \/ FetchMerge
    \/ FetchStatusStart
    \/ StatusFetchError
    \/ StatusFetchNon200
    \/ StatusFetchPage

\* the fetch with a caller that may cancel its context
FetchCancelNext ==
    \/ FetchNext
    \/ CallerCancel

\* one call of a fetchAll function, no request
InitFetch == FetchInit /\ QueryIdle

\* one call of QueryData, the fetch of its handler atomic
InitQuery == FetchIdle /\ QueryInit

InitCancel == CancelInit /\ QueryIdle

SpecCancel == InitCancel /\ [][FetchCancelNext]_vars

SpecFetch == InitFetch /\ [][FetchNext]_vars

SpecQuery == InitQuery /\ [][QueryNext]_vars

\* one call of QueryData with several queries
InitMulti == FetchIdle /\ MultiInit

SpecMulti == InitMulti /\ [][QueryNext]_vars

(***************************************************************************)
(* Properties of the paginators and of the concurrent fetch (SpecFetch).   *)
(***************************************************************************)
FetchReturnedOk == fKind = "errors" /\ fpc = "returned" /\ ret.err = NIL

\* the entries served to stream i whose timestamp denotes instant t
ServedAt(i, t) ==
    LET At(r) == strToTime(r.Timestamp).inst = t
    IN  SelectSeq(served[i], At)

ReturnedAt(t) ==
    LET At(r) == strToTime(r.Timestamp).inst = t
    IN  SelectSeq(ret.records, At)

Instants == { strToTime(ts).inst : ts \in Timestamps }

\* C1: against an API that returns a non-nil cursor on every page, every
\* stream of fetchAllMonitorErrors and fetchAllStatusPageMonitor issue at most
\* maxPageCount fetch calls: the paginator has left its loop once the
\* maxPageCount-th call has been answered, so a further call is never issued.
C1_AtMostMaxPageCountCalls ==
    \A i \in Slots :
        /\ calls[i] <= maxPageCount
        /\ calls[i] = maxPageCount => spc[i] # "loop"

\* Both streams of fetchAllMonitorErrors were answered with a non-nil cursor
\* maxPageCount times, and the function has returned.
C1_Witness ==
    /\ fKind = "errors" /\ includeShared /\ fpc = "returned"
    /\ \A i \in Slots : calls[i] = maxPageCount /\ cursorAfter[i] # NIL /\ sret[i] = NIL

\* C2: when a page fetch of a stream of fetchAllMonitorErrors returns a
\* transport error, the function returns an error that a stream returned,
\* the first of them, and a nil collection, whatever the streams had accumulated.
C2_ErrorMeansNoRecords ==
    (fKind = "errors" /\ fpc = "returned" /\ \E i \in Slots : sret[i] \notin {"none", NIL})
        => /\ ret.records = <<>>
           /\ ret.err = sret[CHOOSE i \in Slots :
                               /\ sret[i] \notin {"none", NIL}
                               /\ \A k \in DOMAIN order :
                                     order[k] = i => \A l \in 1..(k - 1) : sret[order[l]] = NIL]

\* Stream 2 failed after it had accumulated entries, and after stream 1 had
\* finished with entries of its own.
C2_Witness ==
    /\ fKind = "errors" /\ fpc = "returned"
    /\ sret[1] = NIL /\ result[1] # <<>>
    /\ sret[2] \in TransportErrors /\ result[2] # <<>>
    /\ order = <<1, 2>>

\* C3: when every stream finished without an error, the returned collection
\* holds, as a multiset, exactly the entries of every page served to every
\* stream: nothing dropped, nothing overwritten, nothing de-duplicated.
C3_UnionOfAllPages ==
    FetchReturnedOk =>
        /\ Len(ret.records) = Len(served[1]) + Len(served[2])
        /\ SeqBag(ret.records) = SeqBag(served[1] \o served[2])

\* Both streams were served the same record, stream 1 over more than one page.
C3_Witness ==
    /\ FetchReturnedOk
    /\ calls[1] >= 2 /\ Len(served[1]) = 2
    /\ \E r \in Range(served[1]) : r \in Range(served[2])

\* C4: the collection returned by fetchAllMonitorErrors is non-decreasing by
\* the instant its timestamps denote (strToTime), and the records of one
\* instant are those of slot 1 (the non-shared stream) in the order they were
\* served, followed by those of slot 2 (the shared stream) in the order they
\* were served, whichever goroutine returned first.
C4_SortedAndStable ==
    FetchReturnedOk =>
        /\ \A j, k \in DOMAIN ret.records :
              j < k => ~Before(strToTime(ret.records[k].Timestamp),
                               strToTime(ret.records[j].Timestamp))
        /\ \A t \in Instants : ReturnedAt(t) = ServedAt(1, t) \o ServedAt(2, t)

\* The shared stream returned first; each stream was served a record of an
\* instant the other was served a different record of, and stream 1 was
\* served its records out of order.
C4_Witness ==
    /\ FetchReturnedOk
    /\ order = <<2, 1>>
    /\ Len(served[1]) = 2
    /\ Before(strToTime(served[1][2].Timestamp), strToTime(served[1][1].Timestamp))
    /\ \E r \in Range(served[1]), o \in Range(served[2]) :
          r # o /\ strToTime(r.Timestamp).inst = strToTime(o.Timestamp).inst

(***************************************************************************)
(* Properties of the handlers and of QueryData (SpecQuery).                *)
(***************************************************************************)
\* the handler went through its frame-building loop and has returned
Shaped == pc \in {"handled", "recorded"} /\ fetchOutcome = "records"

TimestampParses(r) == TimeParse(r.Timestamp).err = NIL

\* the fetched records whose timestamp parses, in their order
Parseable == SelectSeq(responses, TimestampParses)

ParseableKeys == { Key(kind, Parseable[i]) : i \in DOMAIN Parseable }

\* the parseable records of key k, in their order
RecordsOf(k) ==
    LET HasKey(r) == Key(kind, r) = k
    IN  SelectSeq(Parseable, HasKey)

IsGraph(frame) == frame.Meta.Type = "TimeSeriesMulti"

IsWide(frame) == frame.Meta.Type = "TimeSeriesWide"

\* the rows of a frame: row j holds the j-th value of every field
Rows(frame) ==
    [ j \in DOMAIN frame.Fields[1].Values |->
        [ f \in DOMAIN frame.Fields |-> frame.Fields[f].Values[j] ] ]

RECURSIVE AllRows(_)
AllRows(frames) ==
    IF frames = <<>> THEN <<>>
    ELSE Rows(Head(frames)) \o AllRows(Tail(frames))

\* the configuration the handler leaves on a field that is not the time field
ExpectedConfig == IF kind = "status" THEN StatusMappings ELSE <<>>

\* what the graph table of key k is to be: the labels of the first record of
\* the key, and one (timestamp, measurement) row per record of the key
ExpectedGraphFrame(k) ==
    LET rs == RecordsOf(k) IN
    [ Fields |->
        << [ Name |-> "time", Labels |-> {},
             Values |-> [i \in DOMAIN rs |-> TimeParse(rs[i].Timestamp).time],
             Config |-> <<>> ],
           [ Name |-> MeasurementName(kind), Labels |-> Labels(kind, rs[1]),
             Values |-> [i \in DOMAIN rs |-> Measurement(kind, rs[i])],
             Config |-> ExpectedConfig ] >>,
      Meta |-> [Type |-> "TimeSeriesMulti", PreferredVisualization |-> NIL] ]

\* what the table frame of key k is to be: one row per record of the key,
\* with the dimensions as columns
ExpectedTableFrame(k) ==
    LET rs == RecordsOf(k)
        Column(name, Value(_)) ==
            [ Name |-> name, Labels |-> {},
              Values |-> [i \in DOMAIN rs |-> Value(rs[i])], Config |-> ExpectedConfig ]
        Instance(r) == r.Instance
        Check(r) == r.Check
        Component(r) == r.Component
        Monitor(r) == r.MonitorLogicalName
        Measure(r) == Measurement(kind, r)
    IN
    [ Fields |->
        << [ Name |-> "time", Labels |-> {},
             Values |-> [i \in DOMAIN rs |-> TimeParse(rs[i].Timestamp).time],
             Config |-> <<>> ],
           Column(MeasurementName(kind), Measure) >> \o
        (IF kind = "status"
         THEN << Column("component", Component), Column("monitor", Monitor) >>
         ELSE << Column("instance", Instance), Column("check", Check),
                 Column("monitor", Monitor) >>),
      Meta |-> [Type |-> "TimeSeriesWide", PreferredVisualization |-> "table"] ]

\* C5: the graph tables of a response are as many as the distinct grouping
\* keys of the records whose timestamp parses, a table is created at most
\* once per key, and the table of a key has one row for each parseable
\* record of that key.
C5_OneGraphTablePerKey ==
    Shaped =>
        LET G == SelectSeq(hres.Frames, IsGraph)
            Of(k) == { n \in DOMAIN G :
                         G[n].Fields[2].Labels = Labels(kind, RecordsOf(k)[1]) }
        IN  /\ Len(G) = Cardinality(ParseableKeys)
            /\ \A i, j \in DOMAIN created : i # j => created[i] # created[j]
            /\ \A k \in ParseableKeys :
                  /\ Cardinality(Of(k)) = 1
                  /\ \A n \in Of(k) : \A f \in DOMAIN G[n].Fields :
                        Len(G[n].Fields[f].Values) = Len(RecordsOf(k))

\* Three parseable records of two keys, two of them with different
\* dimensions and one key.
C5_Witness ==
    /\ Shaped
    /\ Len(Parseable) = 3
    /\ Cardinality(ParseableKeys) = 2
    /\ \E i, j \in DOMAIN Parseable :
          /\ Key(kind, Parseable[i]) = Key(kind, Parseable[j])
          /\ Labels(kind, Parseable[i]) # Labels(kind, Parseable[j])

\* C6: for a query that does not come from alerting, the wide rows of the
\* response, read in the order of the response, are the rows of the records
\* whose timestamp parses, one for each, in the order of the input.
C6_WideRowsFollowInput ==
    (Shaped /\ ~q.FromAlerting) =>
        AllRows(SelectSeq(hres.Frames, IsWide)) =
            [ i \in DOMAIN Parseable |->
                TableVals(kind, Parseable[i], TimeParse(Parseable[i].Timestamp).time) ]

\* C7: a query that does not come from alerting and has a parseable record
\* is answered with exactly one wide table, however many keys there are.
C7_ExactlyOneWideTable ==
    (Shaped /\ ~q.FromAlerting /\ Parseable # <<>>) =>
        Len(SelectSeq(hres.Frames, IsWide)) = 1

\* C8: the response of a handler holds exactly the graph table of every
\* key and, unless the query comes from alerting, the table frame of every
\* key; from alerting it holds the same graph tables and no other frame.
\* Besides the table frames the flag changes nothing: no error, no status.
C8_AlertingDropsOnlyTables ==
    Shaped =>
        LET G == SelectSeq(hres.Frames, IsGraph)
            W == SelectSeq(hres.Frames, IsWide)
        IN  /\ herr = NIL /\ hres.Error = NIL /\ hres.Status = NIL
            /\ \A n \in DOMAIN hres.Frames : IsGraph(hres.Frames[n]) \/ IsWide(hres.Frames[n])
            /\ Len(G) = Cardinality(ParseableKeys)
            /\ \A k \in ParseableKeys : \E n \in DOMAIN G : G[n] = ExpectedGraphFrame(k)
            /\ IF q.FromAlerting
               THEN W = <<>>
               ELSE /\ Len(W) = Cardinality(ParseableKeys)
                    /\ \A k \in ParseableKeys : \E n \in DOMAIN W : W[n] = ExpectedTableFrame(k)

\* A status-change query from alerting with records of two keys is answered.
C8_Witness ==
    /\ Shaped
    /\ q.FromAlerting
    /\ kind = "status"
    /\ Cardinality(ParseableKeys) = 2
    /\ Len(hres.Frames) = 2

\* C9: when the fetch of a handler succeeds with zero records, the handler
\* returns a response without tables and a nil error, and QueryData records
\* that response, not an error response, under the RefID of the query.
C9_EmptyFetchEmptyResponse ==
    fetchOutcome = "empty" =>
        /\ pc \in {"handled", "recorded"} =>
              /\ herr = NIL
              /\ hres.Frames = <<>> /\ hres.Error = NIL /\ hres.Status = NIL
        /\ pc = "recorded" =>
              /\ RefIDs[qi] \in DOMAIN Responses
              /\ Responses[RefIDs[qi]].Frames = <<>>
              /\ Responses[RefIDs[qi]].Error = NIL
              /\ Responses[RefIDs[qi]].Status = NIL

\* The fetch of a handler returned no records and QueryData has recorded
\* the response of the query.
C9_Witness ==
    /\ fetchOutcome = "empty"
    /\ pc = "recorded"
    /\ kind \in {"errors", "telemetry", "status"}
    /\ DOMAIN Responses = {"A"}

\* C10: when QueryMonitorTelemetry returns, it has rejected the query with a
\* bad-request response without tables, and without a call to the remote API,
\* if the start of the time range is more than durationThreeMonths before
\* now, whatever the query JSON holds; and it has not rejected the query for
\* its time range if the start is not.
C10_TelemetryLookback ==
    (pc = "handled" /\ kind = "telemetry") =>
        IF q.TimeRange.From < Now - durationThreeMonths
        THEN /\ herr = "errTelemetryRequestedOutsideBounds"
             /\ hres.Status = "StatusBadRequest"
             /\ hres.Error = "errTelemetryRequestedOutsideBounds"
             /\ hres.Frames = <<>>
             /\ apiCalls = 0
        ELSE /\ herr # "errTelemetryRequestedOutsideBounds"
             /\ hres.Error # "errTelemetryRequestedOutsideBounds"

\* QueryMonitorTelemetry has returned from a query whose start is beyond the
\* ceiling and whose JSON it could not have decoded.
C10_Witness ==
    /\ pc = "handled"
    /\ kind = "telemetry"
    /\ q.TimeRange.From < Now - durationThreeMonths
    /\ q.JSON = "mistyped"

\* the errors of the validations of d.query and of the handlers: the query
\* JSON does not decode, the telemetry start is beyond the lookback ceiling
ValidationErrors ==
    { "json: invalid character", "json: cannot unmarshal",
      "errTelemetryRequestedOutsideBounds" }

\* C11: when a query was rejected by validation (its JSON does not decode,
\* or its telemetry start is beyond the lookback ceiling), the response
\* QueryData records under the RefID of the query has the bad-request status
\* of the response the handler produced.
C11_ValidationStaysBadRequest ==
    (pc = "recorded" /\ herr \in ValidationErrors) =>
        /\ hres.Status = "StatusBadRequest"
        /\ Responses[RefIDs[qi]].Status = "StatusBadRequest"

\* C12: a handler that returns from a query whose monitors list is absent
\* or empty has rejected it with a bad-request response and has issued no
\* fetch to the remote API.
C12_MonitorsRequired ==
    (pc = "handled" /\ kind \in {"errors", "telemetry", "status"} /\ q.Monitors = <<>>) =>
        /\ hres.Status = "StatusBadRequest"
        /\ apiCalls = 0

\* the RefIDs of the queries of the request
RequestRefIDs == { RefIDs[i] : i \in DOMAIN req }

\* C13: QueryData never stops short of its return (no failure of a query
\* escapes it), every query the loop has passed has its entry in the
\* response map, and the map QueryData returns has exactly one entry per
\* RefID of the request.
C13_OneEntryPerRefID ==
    /\ pc # "panicked"
    /\ \A i \in DOMAIN req : i < qi => RefIDs[i] \in DOMAIN Responses
    /\ pc = "returned" => DOMAIN Responses = RequestRefIDs

\* C14: a stream of fetchAllMonitorErrors that got a response without
\* success body has returned nil and keeps in its slot every record it was
\* served before; the stop records no error in the group and leaves the
\* shared context uncancelled while the group is waited for, so the sibling
\* pages on; and a result returned after it holds the records the stopped
\* stream had plus every record served to its sibling.
C14_SoftStopKeepsRecords ==
    \A i \in Slots : spc[i] = "stopped" =>
        /\ sret[i] = NIL
        /\ result[i] = served[i]
        /\ (fpc = "wait" /\ \A j \in Slots \ {i} : sret[j] \in {"none", NIL}) =>
              gErr = NIL /\ ~ctxDone
        /\ (fpc = "returned" /\ ret.err = NIL) =>
              SeqBag(ret.records) = SeqBag(served[1] \o served[2])

\* Stream 1 stopped on a response without body with a record in its slot;
\* stream 2 returned after it, having fetched two pages, and the fetch has
\* returned the records of both.
C14_Witness ==
    /\ fpc = "returned" /\ ret.err = NIL
    /\ spc[1] = "stopped" /\ result[1] # <<>>
    /\ spc[2] = "returned" /\ calls[2] >= 2 /\ result[2] # <<>>
    /\ order = <<1, 2>>
    /\ Len(ret.records) = Len(result[1]) + Len(result[2])

\* C15: in the telemetry and the status-change handler a response without
\* success body is a soft stop: the handler does not stop short of its
\* return, and it returns a response and no error.
C15_Non200IsSoftStop ==
    (kind \in {"telemetry", "status"} /\ fetchOutcome = "panic") =>
        /\ pc \in {"handled", "recorded"}
        /\ herr = NIL
        /\ hres.Error = NIL

\* the dimension tuple of a record
Dimensions(k, r) ==
    IF k = "status"
    THEN << r.Component, r.MonitorLogicalName >>
    ELSE << r.Instance, r.Check, r.MonitorLogicalName >>

\* C16: any two records a handler has fetched have the same grouping key
\* if they have the same dimension tuple, and different keys if their
\* dimension tuples differ, dashes in the values or not.
C16_KeyInjective ==
    \A i, j \in DOMAIN responses :
        (Key(kind, responses[i]) = Key(kind, responses[j]))
            <=> (Dimensions(kind, responses[i]) = Dimensions(kind, responses[j]))

\* the rows a handler is to build from the parseable records, in input order
ExpectedGraphRows ==
    [ i \in DOMAIN Parseable |->
        GraphVals(kind, Parseable[i], TimeParse(Parseable[i].Timestamp).time) ]

ExpectedWideRows ==
    [ i \in DOMAIN Parseable |->
        TableVals(kind, Parseable[i], TimeParse(Parseable[i].Timestamp).time) ]

\* C17: a handler whose records include timestamps that do not parse still
\* returns without error; the graph rows of its response are, as a bag, the
\* graph rows of the records whose timestamp parses, and so are the wide
\* rows unless the query comes from alerting: a record with a bad timestamp
\* gives no row, every other record gives its rows.  And the sort of
\* fetchAllMonitorErrors orders the records with good timestamps of any
\* merged collection exactly as it orders them without the bad ones.
C17_BadTimestampSkipped ==
    /\ Shaped =>
          /\ herr = NIL /\ hres.Error = NIL
          /\ SeqBag(AllRows(SelectSeq(hres.Frames, IsGraph))) = SeqBag(ExpectedGraphRows)
          /\ ~q.FromAlerting =>
                SeqBag(AllRows(SelectSeq(hres.Frames, IsWide))) = SeqBag(ExpectedWideRows)
    /\ (pc = "fetch" /\ kind = "errors") =>
          \A s \in SeqsUpTo(MonitorErrorCounts, RecordBudget) :
              SelectSeq(SortSliceStable(s), TimestampParses) =
                  SortSliceStable(SelectSeq(s, TimestampParses))

\* A handler has returned tables from three records, one of them with a
\* timestamp that does not parse and two of them good.
C17_Witness ==
    /\ Shaped
    /\ ~q.FromAlerting
    /\ Len(responses) = 3
    /\ Len(Parseable) = 2
    /\ hres.Frames # <<>>
    /\ Len(AllRows(SelectSeq(hres.Frames, IsWide))) = 2

\* the records of a fetch none of whose fields is absent
Complete == LET NoNil(r) == ~DerefsNil(kind, r) IN SelectSeq(responses, NoNil)

\* C18: a handler whose records include one with an absent field does not
\* stop short of its return; it returns a response without error whose graph
\* rows are the graph rows of the other records (those that are complete
\* and whose timestamp parses).
C18_NilFieldDropped ==
    (fetchOutcome = "records" /\ Complete # responses) =>
        /\ pc # "panicked"
        /\ pc \in {"handled", "recorded"} =>
              /\ herr = NIL
              /\ SeqBag(AllRows(SelectSeq(hres.Frames, IsGraph))) =
                    SeqBag([ i \in DOMAIN SelectSeq(Complete, TimestampParses) |->
                               GraphVals(kind, SelectSeq(Complete, TimestampParses)[i],
                                         TimeParse(SelectSeq(Complete, TimestampParses)[i].Timestamp).time) ])

\* C19: any two builds of a response from the same record collection have
\* given the same ordered list of frames.
C19_RebuildIsIdentical ==
    \A b1, b2 \in builds :
        (b1.kind = b2.kind /\ b1.records = b2.records) => b1.frames = b2.frames

\* the keys of the statuses map of spcStatusToInt
StatusVocabulary == {"up", "operational", "degraded", "down"}

\* status strings that are not keys of the map
UnknownStatuses == {"", "investigating", "UP", "Down", "under_maintenance", "nil"}

\* C20: spcStatusToInt returns 0 for every status string that is not in its
\* vocabulary, the empty string included, and the status-change handler
\* gives a record with such a status its graph row, and its wide row unless
\* the query comes from alerting, with the value 0.
C20_UnknownStatusIsZero ==
    /\ \A s \in UnknownStatuses : s \notin StatusVocabulary /\ spcStatusToInt(s) = 0
    /\ (Shaped /\ kind = "status") =>
          \A i \in DOMAIN Parseable : Parseable[i].Status \notin StatusVocabulary =>
              LET r == Parseable[i]
                  t == TimeParse(r.Timestamp).time
              IN  /\ << t, 0 >> \in Range(AllRows(SelectSeq(hres.Frames, IsGraph)))
                  /\ ~q.FromAlerting =>
                        << t, 0, r.Component, r.MonitorLogicalName >>
                            \in Range(AllRows(SelectSeq(hres.Frames, IsWide)))

\* The status-change handler has returned tables from a record whose status
\* is not in the vocabulary and a record whose status is "down".
C20_Witness ==
    /\ Shaped /\ kind = "status"
    /\ ~q.FromAlerting
    /\ \E i, j \in DOMAIN Parseable :
          /\ Parseable[i].Status \notin StatusVocabulary
          /\ Parseable[j].Status = "down"
    /\ hres.Frames # <<>>

\* C21: the spcStatusToInt of the status-change handler puts its vocabulary
\* on one scale of severity: "under_maintenance" below "up", "up" below
\* "degraded", "degraded" below "down", and the synonyms "up" and
\* "operational" on one ordinal.
C21_SeverityScale ==
    kind = "status" =>
        /\ spcStatusToInt("under_maintenance") < spcStatusToInt("up")
        /\ spcStatusToInt("up") < spcStatusToInt("degraded")
        /\ spcStatusToInt("degraded") < spcStatusToInt("down")
        /\ spcStatusToInt("up") = spcStatusToInt("operational")

\* the ordinals spcStatusToInt can return
StatusOrdinals == { spcStatusToInt(s) : s \in StatusVocabulary \cup UnknownStatuses }

\* C22: in a status-change response with tables, every field but the first
\* of every table carries the value mapping, the first carries none, and
\* the mapping has exactly one entry, with a text and a colour, for every
\* ordinal spcStatusToInt can return, and no other entry.
C22_MappingOnEveryColumn ==
    (Shaped /\ kind = "status") =>
        /\ \A n \in DOMAIN hres.Frames : \A f \in DOMAIN hres.Frames[n].Fields :
              hres.Frames[n].Fields[f].Config = IF f = 1 THEN <<>> ELSE StatusMappings
        /\ \A o \in StatusOrdinals :
              Cardinality({ m \in DOMAIN StatusMappings :
                              StatusMappings[m].value = ToString(o) }) = 1
        /\ Len(StatusMappings) = Cardinality(StatusOrdinals)
        /\ \A m \in DOMAIN StatusMappings :
              StatusMappings[m].Text # "" /\ StatusMappings[m].Color # ""

\* A status-change response that is not for alerting holds a graph and a
\* wide table, the wide one with its four columns, and a row of ordinal 2.
C22_Witness ==
    /\ Shaped /\ kind = "status"
    /\ ~q.FromAlerting
    /\ \E n \in DOMAIN hres.Frames :
          /\ IsWide(hres.Frames[n])
          /\ Len(hres.Frames[n].Fields) = 4
          /\ 2 \in Range(hres.Frames[n].Fields[2].Values)
    /\ \E n \in DOMAIN hres.Frames : IsGraph(hres.Frames[n])

\* C23: in every table the telemetry and the status-change handler return,
\* the timestamps of the rows are non-decreasing.
C23_RowsInTimeOrder ==
    (Shaped /\ kind \in {"telemetry", "status"}) =>
        \A n \in DOMAIN hres.Frames :
            LET times == hres.Frames[n].Fields[1].Values
            IN  \A i, j \in DOMAIN times : i < j => ~Before(times[j], times[i])

\* the phase of the query a handler is working on
Phase ==
    CASE pc = "validate"                -> "Validating"
      [] pc = "fetch"                   -> "Fetching"
      [] pc = "shape"                   -> "Shaping"
      [] pc \in {"handled", "recorded"} -> IF herr = NIL THEN "Done" ELSE "Failed"
      [] OTHER                          -> "Aborted"

\* the position of a phase in the order of the phases (the merge is part of
\* the fetch step)
PhaseRank(phase) ==
    CASE phase = "Validating" -> 1
      [] phase = "Fetching"   -> 2
      [] phase = "Shaping"    -> 4
      [] phase = "Done"       -> 5
      [] phase = "Failed"     -> 5
      [] OTHER                -> 0

\* C24: every step of a handler takes its query to the same or a later
\* phase in the order Validating, Fetching, Shaping, Done, never to an
\* earlier one and never out of the phases; Failed is entered from
\* Validating or Fetching only, and Done with a nil error.
C24_PhasesInOrder ==
    [][ (kind # "none" /\ kind' # "none") =>
            /\ PhaseRank(Phase') >= PhaseRank(Phase)
            /\ PhaseRank(Phase') > 0
            /\ (Phase' = "Failed" /\ Phase # "Failed") => Phase \in {"Validating", "Fetching"}
            /\ (Phase = "Shaping") => Phase' \in {"Shaping", "Done"}
            /\ (Phase \in {"Done", "Failed"}) => Phase' = Phase ]_vars

(***************************************************************************)
(* C25: every page fetch of every stream of fetchAllMonitorErrors is       *)
(* issued under the one cancellation context of the group: a call observes *)
(* a cancelled context exactly when the group's context is cancelled at    *)
(* the time of the call.  That context is cancelled as soon as a stream    *)
(* has returned a hard error or the caller's context is cancelled, and     *)
(* stays so: every call a sibling issues afterwards observes it cancelled. *)
(* fetchAllMonitorErrors does not return before all streams have stopped.  *)
(***************************************************************************)
HardErrorReturned == \E i \in Slots : sret[i] \notin {"none", NIL}

C25_OneGroupContext ==
    [][ fKind = "errors" =>
          /\ \A i \in Slots :
                calls'[i] # calls[i] =>
                    callCtx'[i] = IF ctxDone THEN "done" ELSE "live"
          /\ (HardErrorReturned' \/ callerDone') => ctxDone'
          /\ ctxDone => ctxDone'
          /\ \A i \in Slots :
                (calls'[i] # calls[i] /\ (HardErrorReturned \/ callerDone)) =>
                    callCtx'[i] = "done"
          /\ fpc' = "returned" => AllStreamsReturned'
      ]_vars

\* stream 1 returned a hard error first, the caller's context live; stream 2
\* issued a call after it, and the fetch has returned
C25_Witness ==
    /\ fKind = "errors" /\ fpc = "returned"
    /\ ~callerDone
    /\ Len(order) = 2 /\ order[1] = 1
    /\ sret[1] \notin {"none", NIL}
    /\ callCtx[2] = "done"
    /\ calls[2] >= 2

(***************************************************************************)
(* C26: under every interleaving of the streams of fetchAllMonitorErrors,  *)
(* a step of stream i changes slot result[i] and the cursor and request    *)
(* parameters of stream i only, and nothing but a stream's step changes a  *)
(* slot or a cursor; the result array has one slot per parameter set, the  *)
(* slots beyond staying untouched; and the function returns, merging the   *)
(* slots, only when every stream has finished, reading the slots as they   *)
(* are.                                                                    *)
(***************************************************************************)
StreamStepped(i) == calls'[i] # calls[i]

C26_SlotsArePrivate ==
    [][ fKind = "errors" =>
          /\ \A i \in Slots : \A j \in Slots \ {i} :
                StreamStepped(i) =>
                    /\ result'[j] = result[j]
                    /\ cursorAfter'[j] = cursorAfter[j]
                    /\ lastReq'[j] = lastReq[j]
                    /\ pageCount'[j] = pageCount[j]
          /\ (\A i \in Slots : ~StreamStepped(i)) =>
                /\ result' = result
                /\ cursorAfter' = cursorAfter
          /\ \A j \in Slots :
                j > Len(params') => (result'[j] = <<>> /\ spc'[j] = "idle")
          /\ \A j \in Slots :
                (j <= Len(params') /\ fpc' # "start") => spc'[j] # "idle"
          /\ ret' # ret =>
                /\ AllStreamsReturned
                /\ result' = result
                /\ ret'.err = NIL =>
                      SeqBag(ret'.records) = SeqBag(MergeSlots(result, Len(params)))
      ]_vars

\* both streams are in their loops, each with two calls made and entries in
\* its slot
C26_Witness ==
    /\ fKind = "errors" /\ fpc = "wait"
    /\ \A i \in Slots :
          /\ spc[i] = "loop"
          /\ calls[i] >= 2
          /\ result[i] # <<>>
    /\ cursorAfter[1] # cursorAfter[2]

(***************************************************************************)
(* C27: in each paginator (every stream of fetchAllMonitorErrors, and      *)
(* fetchAllStatusPageMonitor) the first request carries no cursor; every   *)
(* later request follows a page that carried a cursor and carries exactly  *)
(* that cursor, its other parameters those of the request before; and a    *)
(* page is requested once: every request but the last has been answered    *)
(* with a page, so the requests number at most the pages received plus one. *)
(***************************************************************************)
OtherParams(request) == [request EXCEPT !.CursorAfter = NIL]

C27_CursorThreading ==
    [][ \A i \in Slots :
          StreamStepped(i) =>
              /\ calls'[i] = calls[i] + 1
              /\ Len(lastReq'[i]) = 1
              /\ IF calls[i] = 0
                 THEN /\ lastReq'[i][1].CursorAfter = NIL
                      /\ lastCursor[i] = "none"
                 ELSE /\ lastCursor[i] \in Cursors
                      /\ lastReq'[i][1].CursorAfter = lastCursor[i]
                      /\ OtherParams(lastReq'[i][1]) = OtherParams(lastReq[i][1])
              /\ calls[i] = pageCount[i]
              /\ params' = params
      ]_vars

\* a paginator has made three requests, the third with the cursor "c2" of
\* the second page, and ended on the nil cursor of the third page
C27_Witness ==
    \E i \in Slots :
        /\ calls[i] = 3
        /\ pageCount[i] = 2
        /\ lastReq[i][1].CursorAfter = "c2"
        /\ lastCursor[i] = NIL
        /\ spc[i] = "returned"

(***************************************************************************)
(* C28: in each paginator, after a page whose cursor is nil no further     *)
(* fetch call is issued; a paginator leaves its loop only in a step that   *)
(* issued a call and ended in a nil cursor, the page bound, an error or a  *)
(* missing body; and a page with a non-nil cursor below the page bound     *)
(* leaves the paginator in its loop, about to fetch the next page, also    *)
(* when the page has no entries.                                           *)
(***************************************************************************)
StoppedByError(i) ==
    IF fKind = "errors" THEN sret'[i] \notin {"none", NIL} ELSE ret'.err # NIL

StoppedByMissingBody(i) == spc'[i] \in {"stopped", "panicked"}

StoppedByNilCursor(i) == lastCursor'[i] = NIL /\ spc'[i] = "returned"

StoppedByPageBound(i) == lastCursor'[i] \in Cursors /\ pageCount'[i] = maxPageCount

C28_OnlyNilCursorEndsPaging ==
    [][ \A i \in Slots :
          /\ lastCursor[i] = NIL => ~StreamStepped(i)
          /\ (spc[i] = "loop" /\ spc'[i] # "loop") =>
                /\ StreamStepped(i)
                /\ \/ StoppedByError(i)
                   \/ StoppedByMissingBody(i)
                   \/ StoppedByNilCursor(i)
                   \/ StoppedByPageBound(i)
          /\ ( /\ StreamStepped(i)
               /\ ~StoppedByError(i) /\ ~StoppedByMissingBody(i)
               /\ lastCursor'[i] \in Cursors
               /\ pageCount'[i] < maxPageCount ) => spc'[i] = "loop"
          /\ StreamStepped(i) => spc[i] = "loop"
      ]_vars

\* a paginator got a page without entries and with a cursor, fetched the next
\* page, which had no entries and a nil cursor, and made no call after it
C28_Witness ==
    \E i \in Slots :
        /\ calls[i] = 2
        /\ pageCount[i] = 1
        /\ served[i] = <<>>
        /\ lastReq[i][1].CursorAfter \in Cursors
        /\ lastCursor[i] = NIL
        /\ spc[i] = "returned"
        /\ fpc = "returned"

(***************************************************************************)
(* C29: fetchAllMonitorErrors launches one pagination stream when          *)
(* includeShared is false and two when it is true; the parameters of the   *)
(* second are those of the first with OnlyShared = true, the first having  *)
(* no OnlyShared; and every request of a stream carries the time range and *)
(* the monitors of the query, the OnlyShared of its stream, and the check  *)
(* and instance filters of the query, an empty list sent as an absent one. *)
(***************************************************************************)
SentFilter(slice) ==
    IF ~slice.nil /\ slice.elems # <<>> THEN slice ELSE NilSlice

C29_StreamsAndFilters ==
    (fKind = "errors" /\ fpc # "start") =>
        /\ Len(params) = IF includeShared THEN 2 ELSE 1
        /\ { i \in Slots : spc[i] # "idle" } = 1..Len(params)
        /\ params[1].OnlyShared = NIL
        /\ includeShared => params[2] = [params[1] EXCEPT !.OnlyShared = "true"]
        /\ \A i \in 1..Len(params) :
              /\ params[i].C = fquery.Checks
              /\ params[i].I = fquery.Instances
              /\ lastReq[i] # <<>> =>
                    /\ lastReq[i][1].From = FetchFrom
                    /\ lastReq[i][1].To = FetchTo
                    /\ lastReq[i][1].M = FetchMonitors
                    /\ lastReq[i][1].OnlyShared = params[i].OnlyShared
                    /\ lastReq[i][1].C = SentFilter(fquery.Checks)
                    /\ lastReq[i][1].I = SentFilter(fquery.Instances)

\* includeShared with an empty check list and an instance list of one: both
\* streams have sent a request, without check filter and with the instance
\* filter
C29_Witness ==
    /\ fKind = "errors" /\ includeShared
    /\ fquery.Checks = SliceOf(<<>>)
    /\ \A i \in Slots : lastReq[i] # <<>>
    /\ lastReq[1][1].OnlyShared = NIL
    /\ lastReq[2][1].OnlyShared = "true"
    /\ lastReq[2][1].C = NilSlice
    /\ lastReq[2][1].I = SliceOf(<<"us-east-1">>)

\* includeShared false: the one stream has sent its request, the empty
\* instance list as an absent filter, and the fetch has returned
C29_WitnessOneStream ==
    /\ fKind = "errors" /\ ~includeShared /\ fpc = "returned"
    /\ fquery.Instances = SliceOf(<<>>)
    /\ lastReq[1] # <<>> /\ lastReq[2] = <<>>
    /\ lastReq[1][1].I = NilSlice

(***************************************************************************)
(* C30: when a paginator has stopped on the page bound, its 20th page      *)
(* still carrying a cursor, and no stream returned a hard error, the fetch *)
(* returns a nil error and the records served on those pages (with those   *)
(* of the other stream, sorted, for fetchAllMonitorErrors), and what it    *)
(* returns has the two fields records and err and no other: it is what a   *)
(* complete result set of the same records returns.                        *)
(***************************************************************************)
\* paginator i received maxPageCount pages, every one with a cursor
StoppedOnPageBound(i) ==
    /\ pageCount[i] = maxPageCount
    /\ lastCursor[i] \in Cursors
    /\ spc[i] = "returned"

\* what the fetch returns for a complete result set of the records served
CompleteReturn ==
    [ records |-> IF fKind = "errors"
                  THEN SortSliceStable(served[1] \o served[2])
                  ELSE served[1],
      err |-> NIL ]

C30_TruncationIsSilent ==
    ( /\ fpc = "returned"
      /\ \E i \in Slots : StoppedOnPageBound(i)
      /\ ~HardErrorReturned ) =>
        /\ ret.err = NIL
        /\ DOMAIN ret = {"records", "err"}
        /\ ret = CompleteReturn
        /\ \A i \in Slots : StoppedOnPageBound(i) => calls[i] = maxPageCount

\* fetchAllMonitorErrors: stream 1 stopped on the page bound with two records
\* served, stream 2 ended on a nil cursor; fetchAllStatusPageMonitor in
\* C30_WitnessStatus
C30_Witness ==
    /\ fKind = "errors" /\ fpc = "returned"
    /\ StoppedOnPageBound(1)
    /\ lastCursor[2] = NIL
    /\ Len(served[1]) = 2
    /\ Len(ret.records) >= 2
    /\ ret.err = NIL

C30_WitnessStatus ==
    /\ fKind = "status" /\ fpc = "returned"
    /\ StoppedOnPageBound(1)
    /\ Len(ret.records) = 2
    /\ ret.err = NIL

====
